---- MODULE Spec2Model ----
(***************************************************************************)
(* Model of src/src/App.js: the Fisher-Yates shuffleArray helper and the   *)
(* App component's shuffled, batched, lock-guarded photo loader.           *)
(*                                                                         *)
(* React state (useState) is modelled as a committed value plus the queue  *)
(* of updates that setX calls have enqueued and that the next render       *)
(* applies.  A callback created by useCallback is the record of the values *)
(* it closed over.  The scroll listener is the callback bound by the last  *)
(* run of the scroll effect, so it can lag one render behind the state.    *)
(* loadingRef is a ref: it is read and written synchronously.              *)
(***************************************************************************)
EXTENDS Integers, Sequences, FiniteSets, TLC

\* ------------------------------------------------------------------ bounds
\* Largest number of documents the photos collection holds.
MaxDocs == 30
\* Largest number of fetchPhotoBatch invocations that get past the guard.
MaxStarts == 5
\* Math.random() is drawn from { k / RandDenom : k \in 0 .. RandDenom - 1 }.
RandDenom == 4
\* Longest array handed to shuffleArray when it is checked on its own.
MaxLen == 4
\* Element values of those arrays.
MaxElem == 3

\* ------------------------------------------------------- program constants
BATCH_SIZE == 12

VARIABLES
    photos,             \* useState([])    committed value
    shuffledPhotoIds,   \* useState([])    committed value
    currentIndex,       \* useState(0)     committed value
    loading,            \* useState(false) committed value
    allLoaded,          \* useState(false) committed value
    loadingRef,         \* useRef(false).current
    updates,            \* per-hook queues of state updates not yet rendered
    bound,              \* fetchPhotoBatch closure held by the scroll listener,
                        \* and photos.length, as of the last run of the effects
    effectsPending,     \* a render was committed whose effects have not run
    enumeration,        \* getDocs: "inflight", "done" or "failed"
    inflight,           \* batches suspended at await Promise.all
    started,            \* history: invocations that got past the guard
    successes,          \* history: invocations that reached setCurrentIndex
    failures,           \* history: invocations that ended in the catch block
    fetchLog,           \* history: the windows for which getDoc was issued
    lastCall,           \* history: how the latest invocation ended so far
    orderly,            \* history: every scroll so far fired in a settled state
    shInput,            \* shuffleArray: the array as passed in
    shArray,            \* shuffleArray: array
    shCurrentIndex,     \* shuffleArray: currentIndex
    shRandomIndex,      \* shuffleArray: randomIndex
    shPc                \* shuffleArray: "idle", "loop" or "done"

appVars == <<photos, shuffledPhotoIds, currentIndex, loading, allLoaded,
             loadingRef, updates, bound, effectsPending, enumeration,
             inflight, started, successes, failures, fetchLog, lastCall,
             orderly>>
shVars == <<shInput, shArray, shCurrentIndex, shRandomIndex, shPc>>
vars == <<appVars, shVars>>

\* ----------------------------------------------------------------- helpers
Min(a, b) == IF a < b THEN a ELSE b

Range(s) == {s[i] : i \in DOMAIN s}

\* Variant: the end position is taken as included.
SliceInclusive(s, from, to) == SubSeq(s, from + 1, Min(to + 1, Len(s)))

\* Array.prototype.slice(from, to) on 0-based positions.
Slice(s, from, to) == SubSeq(s, from + 1, Min(to, Len(s)))

\* ------------------------------------------------------------ shuffleArray
\* One pass of the while loop body, entered with currentIndex # 0 and
\* Math.random() = rnd / RandDenom.
RandomIndex(currentIdx, rnd) == (rnd * currentIdx) \div RandDenom

\* Variant: the element at randomIndex is copied, not exchanged.
ShuffleStepNoSwap(array, currentIdx, rnd) ==
    LET randomIndex == RandomIndex(currentIdx, rnd)
        decremented == currentIdx - 1
    IN  [array EXCEPT ![decremented + 1] = array[randomIndex + 1]]

ShuffleStep(array, currentIdx, rnd) ==
    LET randomIndex == RandomIndex(currentIdx, rnd)
        decremented == currentIdx - 1
    IN  [array EXCEPT ![decremented + 1] = array[randomIndex + 1],
                      ![randomIndex + 1] = array[decremented + 1]]

RECURSIVE ShuffleLoop(_, _, _)
ShuffleLoop(array, currentIdx, draws) ==
    IF currentIdx = 0
    THEN array
    ELSE ShuffleLoop(ShuffleStep(array, currentIdx, draws[currentIdx]),
                     currentIdx - 1, draws)

\* shuffleArray(array), with draws[i] the draw made when currentIndex = i.
shuffleArray(array, draws) == ShuffleLoop(array, Len(array), draws)

\* --------------------------------------------------------------- App state
NoUpdates == [photos |-> <<>>, ids |-> <<>>, index |-> 0,
              loading |-> <<>>, allLoaded |-> FALSE]

\* The values fetchPhotoBatch closes over (its useCallback dependencies).
Closure == [currentIndex |-> currentIndex,
            shuffledPhotoIds |-> shuffledPhotoIds,
            allLoaded |-> allLoaded]

\* Variant: the new records are appended without the filter.
MergePhotosNoFilter(prevPhotos, newPhotos) == prevPhotos \o newPhotos

\* The updater passed to setPhotos, applied to prevPhotos.
MergePhotos(prevPhotos, newPhotos) ==
    LET existingIds == {prevPhotos[i].id : i \in DOMAIN prevPhotos}
        uniqueNewPhotos == SelectSeq(newPhotos, LAMBDA p : p.id \notin existingIds)
    IN  prevPhotos \o uniqueNewPhotos

RECURSIVE ApplyPhotoUpdates(_, _)
ApplyPhotoUpdates(prevPhotos, queue) ==
    IF queue = <<>>
    THEN prevPhotos
    ELSE ApplyPhotoUpdates(MergePhotos(prevPhotos, Head(queue)), Tail(queue))

\* Variant: the records are built in the order the reads came back.
NewPhotosArrivalOrder(b) ==
    LET last == CHOOSE i \in 1 .. Len(b.ids) : i \notin Range(b.arrived)
        arrival == b.arrived \o <<last>>
    IN  [i \in 1 .. Len(b.ids) |->
            [id |-> b.ids[arrival[i]],
             index |-> b.currentIndex + (arrival[i] - 1)]]

\* Variant: the index is the position in the window alone.
NewPhotosWindowIndex(b) == [i \in 1 .. Len(b.ids) |->
                              [id |-> b.ids[i], index |-> i - 1]]

\* photoDocs.map((d, i) => ({id: d.id, ...d.data(), index: currentIndex + i}))
NewPhotos(b) == [i \in 1 .. Len(b.ids) |->
                    [id |-> b.ids[i], index |-> b.currentIndex + (i - 1)]]

\* State after construction: the first render is committed and its effects
\* have run, so fetchAllPhotoIds has called setLoading(true) and is suspended
\* at await getDocs, and the scroll listener holds the first fetchPhotoBatch.
AppInit ==
    /\ photos = <<>>
    /\ shuffledPhotoIds = <<>>
    /\ currentIndex = 0
    /\ loading = FALSE
    /\ allLoaded = FALSE
    /\ loadingRef = FALSE
    /\ updates = [NoUpdates EXCEPT !.loading = <<TRUE>>]
    /\ bound = [cb |-> [currentIndex |-> 0, shuffledPhotoIds |-> <<>>,
                        allLoaded |-> FALSE],
                photosLength |-> 0]
    /\ effectsPending = FALSE
    /\ enumeration = "inflight"
    /\ inflight = <<>>
    /\ started = 0
    /\ successes = 0
    /\ failures = 0
    /\ fetchLog = <<>>
    /\ lastCall = "none"
    /\ orderly = TRUE

ShuffleIdle ==
    /\ shInput = <<>>
    /\ shArray = <<>>
    /\ shCurrentIndex = 0
    /\ shRandomIndex = 0
    /\ shPc = "idle"

Init == AppInit /\ ShuffleIdle

\* ---------------------------------------------------------- fetchAllPhotoIds
DocCounts == {0, 1, BATCH_SIZE, BATCH_SIZE + 1, MaxDocs}

\* await getDocs resolves with n documents; the ids are shuffled, with every
\* Math.random() of the pass one of rnds / RandDenom, and stored.
EnumerationResolveWith(rnds) ==
    /\ enumeration = "inflight"
    /\ \E n \in DocCounts, rnd \in rnds :
          LET ids == [i \in 1 .. n |-> i]
              draws == [i \in 1 .. n |-> rnd]
          IN  updates' = [updates EXCEPT !.ids = <<shuffleArray(ids, draws)>>,
                                         !.loading = <<FALSE>>]
    /\ enumeration' = "done"
    /\ UNCHANGED <<photos, shuffledPhotoIds, currentIndex, loading, allLoaded,
                   loadingRef, bound, effectsPending, inflight, started,
                   successes, failures, fetchLog, lastCall, orderly>>
    /\ UNCHANGED shVars

EnumerationResolve == EnumerationResolveWith(0 .. RandDenom - 1)

\* The same with Math.random() returning 0 throughout.
EnumerationResolveOneDraw == EnumerationResolveWith({0})

\* await getDocs rejects: fetchAllPhotoIds has no handler, nothing else runs.
EnumerationReject ==
    /\ enumeration = "inflight"
    /\ enumeration' = "failed"
    /\ UNCHANGED <<photos, shuffledPhotoIds, currentIndex, loading, allLoaded,
                   loadingRef, updates, bound, effectsPending, inflight,
                   started, successes, failures, fetchLog, lastCall, orderly>>
    /\ UNCHANGED shVars

\* ----------------------------------------------------------- fetchPhotoBatch
\* Variant: the ref is not consulted.
GuardedNoLock(cb) == cb.allLoaded

\* The guard at the top of fetchPhotoBatch, for the callback cb.
Guarded(cb) == loadingRef \/ cb.allLoaded

\* Variant: the slice is not compared with the length of the order.
SliceExhaustedNoLengthTest(cb, nextBatchIds) == Len(nextBatchIds) = 0

\* The test of the exhaustion branch.
SliceExhausted(cb, nextBatchIds) ==
    Len(nextBatchIds) = 0 /\ Len(cb.shuffledPhotoIds) > 0

\* Variant: the exhaustion branch sets the flag but does not return.
FetchPhotoBatchNoReturn(cb) ==
    IF Guarded(cb)
    THEN /\ lastCall' = "noop"
         /\ UNCHANGED <<loadingRef, updates, inflight, started, fetchLog>>
    ELSE LET nextBatchIds == Slice(cb.shuffledPhotoIds, cb.currentIndex,
                                   cb.currentIndex + BATCH_SIZE)
             exhausted == SliceExhausted(cb, nextBatchIds)
         IN  /\ started' = started + 1
             /\ loadingRef' = TRUE
             /\ updates' = [updates EXCEPT !.loading = <<TRUE>>,
                                           !.allLoaded = @ \/ exhausted]
             /\ inflight' = Append(inflight,
                               [currentIndex |-> cb.currentIndex,
                                ids |-> nextBatchIds,
                                arrived |-> <<>>])
             /\ fetchLog' = IF nextBatchIds = <<>>
                            THEN fetchLog
                            ELSE Append(fetchLog, nextBatchIds)
             /\ lastCall' = "fetching"

\* The synchronous part of one invocation of the callback cb: from the guard
\* to the first await, or through finally when the exhaustion branch returns.
FetchPhotoBatch(cb) ==
    IF Guarded(cb)
    THEN /\ lastCall' = "noop"
         /\ UNCHANGED <<loadingRef, updates, inflight, started, fetchLog>>
    ELSE LET nextBatchIds == Slice(cb.shuffledPhotoIds, cb.currentIndex,
                                   cb.currentIndex + BATCH_SIZE)
         IN  /\ started' = started + 1
             /\ IF SliceExhausted(cb, nextBatchIds)
                THEN /\ updates' = [updates EXCEPT !.allLoaded = TRUE,
                                                   !.loading = <<FALSE>>]
                     /\ loadingRef' = FALSE
                     /\ lastCall' = "exhausted"
                     /\ UNCHANGED <<inflight, fetchLog>>
                ELSE /\ loadingRef' = TRUE
                     /\ updates' = [updates EXCEPT !.loading = <<TRUE>>]
                     /\ inflight' = Append(inflight,
                                       [currentIndex |-> cb.currentIndex,
                                        ids |-> nextBatchIds,
                                        arrived |-> <<>>])
                     /\ fetchLog' = IF nextBatchIds = <<>>
                                    THEN fetchLog
                                    ELSE Append(fetchLog, nextBatchIds)
                     /\ lastCall' = "fetching"

\* The rest of the try block after await Promise.all resolved, then finally.
BatchSucceed(k) ==
    /\ updates' = [updates EXCEPT
                      !.photos = Append(@, NewPhotos(inflight[k])),
                      !.index = @ + 1,
                      !.loading = <<FALSE>>]
    /\ loadingRef' = FALSE
    /\ successes' = successes + 1
    /\ lastCall' = "succeeded"
    /\ UNCHANGED failures

\* Variant: the catch block without the finally block.
BatchFailNoRelease(k) ==
    /\ failures' = failures + 1
    /\ lastCall' = "failed"
    /\ UNCHANGED <<updates, loadingRef, successes>>

\* The catch block after await Promise.all rejected, then finally.
BatchFail(k) ==
    /\ updates' = [updates EXCEPT !.loading = <<FALSE>>]
    /\ loadingRef' = FALSE
    /\ failures' = failures + 1
    /\ lastCall' = "failed"
    /\ UNCHANGED successes

Remove(s, k) == [i \in 1 .. Len(s) - 1 |-> IF i < k THEN s[i] ELSE s[i + 1]]

\* The positions of a window whose getDoc can settle next: the reads of one
\* window come back first-to-last or last-to-first.
NextArrivals(b) ==
    IF Len(b.arrived) = Len(b.ids) THEN {}
    ELSE IF b.arrived = <<>> THEN {1, Len(b.ids)}
    ELSE IF b.arrived[1] = 1 THEN {Len(b.arrived) + 1}
    ELSE {Len(b.ids) - Len(b.arrived)}

\* One getDoc of a suspended batch resolves; with the last one Promise.all
\* resolves and the invocation runs to its end.
ReadResolve ==
    /\ \E k \in DOMAIN inflight : \E i \in NextArrivals(inflight[k]) :
          IF Len(inflight[k].arrived) + 1 = Len(inflight[k].ids)
          THEN /\ BatchSucceed(k)
               /\ inflight' = Remove(inflight, k)
          ELSE /\ inflight' = [inflight EXCEPT ![k].arrived = Append(@, i)]
               /\ UNCHANGED <<updates, loadingRef, successes, failures, lastCall>>
    /\ UNCHANGED <<photos, shuffledPhotoIds, currentIndex, loading, allLoaded,
                   bound, effectsPending, enumeration, started, fetchLog,
                   orderly>>
    /\ UNCHANGED shVars

\* One getDoc of a suspended batch rejects: Promise.all rejects at once.
ReadReject ==
    /\ \E k \in DOMAIN inflight : \E i \in NextArrivals(inflight[k]) :
          /\ BatchFail(k)
          /\ inflight' = Remove(inflight, k)
    /\ UNCHANGED <<photos, shuffledPhotoIds, currentIndex, loading, allLoaded,
                   bound, effectsPending, enumeration, started, fetchLog,
                   orderly>>
    /\ UNCHANGED shVars

\* Promise.all([]) of an empty window resolves.
EmptyBatchResolve ==
    /\ \E k \in DOMAIN inflight :
          /\ inflight[k].ids = <<>>
          /\ BatchSucceed(k)
          /\ inflight' = Remove(inflight, k)
    /\ UNCHANGED <<photos, shuffledPhotoIds, currentIndex, loading, allLoaded,
                   bound, effectsPending, enumeration, started, fetchLog,
                   orderly>>
    /\ UNCHANGED shVars

\* ------------------------------------------------------------------- React
\* Nothing is queued, rendered-but-unbound, or in flight.
Settled ==
    /\ enumeration # "inflight"
    /\ inflight = <<>>
    /\ updates = NoUpdates
    /\ ~effectsPending

\* handleScroll, with the viewport within 500px of the bottom: the listener
\* calls the fetchPhotoBatch it was bound to.
Scroll ==
    /\ started < MaxStarts
    /\ FetchPhotoBatch(bound.cb)
    /\ orderly' = (orderly /\ Settled)
    /\ UNCHANGED <<photos, shuffledPhotoIds, currentIndex, loading, allLoaded,
                   bound, effectsPending, enumeration, successes, failures>>
    /\ UNCHANGED shVars

\* React renders App: every queued update is applied to its hook.
Render ==
    /\ ~effectsPending
    /\ updates # NoUpdates
    /\ photos' = ApplyPhotoUpdates(photos, updates.photos)
    /\ shuffledPhotoIds' = IF updates.ids = <<>> THEN shuffledPhotoIds
                           ELSE updates.ids[1]
    /\ currentIndex' = currentIndex + BATCH_SIZE * updates.index
    /\ loading' = IF updates.loading = <<>> THEN loading ELSE updates.loading[1]
    /\ allLoaded' = (allLoaded \/ updates.allLoaded)
    /\ updates' = NoUpdates
    /\ effectsPending' = TRUE
    /\ UNCHANGED <<loadingRef, bound, enumeration, inflight, started,
                   successes, failures, fetchLog, lastCall, orderly>>
    /\ UNCHANGED shVars

\* The effects of the committed render run: the first-batch effect, if one
\* of its dependencies changed, then the scroll effect re-binds the listener.
AutoTrigger ==
    /\ (Closure # bound.cb \/ Len(photos) # bound.photosLength)
    /\ Len(shuffledPhotoIds) > 0
    /\ Len(photos) = 0

Effects ==
    /\ effectsPending
    /\ IF AutoTrigger
       THEN started < MaxStarts /\ FetchPhotoBatch(Closure)
       ELSE UNCHANGED <<loadingRef, updates, inflight, started, fetchLog,
                        lastCall>>
    /\ bound' = [cb |-> Closure, photosLength |-> Len(photos)]
    /\ effectsPending' = FALSE
    /\ UNCHANGED <<photos, shuffledPhotoIds, currentIndex, loading, allLoaded,
                   enumeration, successes, failures, orderly>>
    /\ UNCHANGED shVars

\* ------------------------------------------- shuffleArray, statement by statement
ShuffleInputs ==
    UNION {[1 .. n -> 1 .. MaxElem] : n \in 0 .. MaxLen}

\* shuffleArray is entered with some array: currentIndex = array.length.
ShuffleInit ==
    /\ AppInit
    /\ shInput \in ShuffleInputs
    /\ shArray = shInput
    /\ shCurrentIndex = Len(shInput)
    /\ shRandomIndex = 0
    /\ shPc = "loop"

\* while (currentIndex !== 0) { ... }
ShuffleLoopStep ==
    /\ shPc = "loop"
    /\ shCurrentIndex # 0
    /\ \E rnd \in 0 .. RandDenom - 1 :
          /\ shRandomIndex' = RandomIndex(shCurrentIndex, rnd)
          /\ shArray' = ShuffleStep(shArray, shCurrentIndex, rnd)
    /\ shCurrentIndex' = shCurrentIndex - 1
    /\ UNCHANGED <<shInput, shPc>>
    /\ UNCHANGED appVars

\* return array;
ShuffleReturn ==
    /\ shPc = "loop"
    /\ shCurrentIndex = 0
    /\ shPc' = "done"
    /\ UNCHANGED <<shInput, shArray, shCurrentIndex, shRandomIndex>>
    /\ UNCHANGED appVars

ShuffleNext ==
    \/ ShuffleLoopStep
    \/ ShuffleReturn

\* The loop is synchronous code: once entered it runs to its return.
ShuffleSpec == ShuffleInit /\ [][ShuffleNext]_vars /\ WF_vars(ShuffleNext)

Next ==
    \/ EnumerationResolve
    \/ EnumerationReject
    \/ Scroll
    \/ ReadResolve
    \/ ReadReject
    \/ EmptyBatchResolve
    \/ Render
    \/ Effects

Spec == Init /\ [][Next]_vars

\* The app with one outcome of the shuffle per collection size.
NextOneDraw ==
    \/ EnumerationResolveOneDraw
    \/ EnumerationReject
    \/ Scroll
    \/ ReadResolve
    \/ ReadReject
    \/ EmptyBatchResolve
    \/ Render
    \/ Effects

\* Every getDoc that was issued settles: it resolves or it rejects.
ReadsSettle == ReadResolve \/ ReadReject \/ EmptyBatchResolve

ReadsSettleSpec == Init /\ [][NextOneDraw]_vars /\ WF_vars(ReadsSettle)

\* The loader kept running: the user keeps scrolling near the bottom, every
\* getDoc settles, React processes the queued state updates and then runs
\* the effects of the render it committed.
ProgressSpec ==
    /\ Init /\ [][NextOneDraw]_vars
    /\ WF_vars(Scroll)
    /\ WF_vars(ReadsSettle)
    /\ WF_vars(Render)
    /\ WF_vars(Effects)

\* ================================================================== claims
Count(s, x) == Cardinality({i \in DOMAIN s : s[i] = x})

SameMultiset(s, t) ==
    /\ Len(s) = Len(t)
    /\ \A x \in Range(s) \cup Range(t) : Count(s, x) = Count(t, x)

\* The shuffled order, the photos and the cursor as the next render will
\* commit them (the committed value with the queued updates applied).
EnumeratedIds == IF updates.ids = <<>> THEN shuffledPhotoIds ELSE updates.ids[1]
N == Len(EnumeratedIds)
EffPhotos == ApplyPhotoUpdates(photos, updates.photos)
EffIndex == currentIndex + BATCH_SIZE * updates.index
EffAllLoaded == allLoaded \/ updates.allLoaded
EffLoading == IF updates.loading = <<>> THEN loading ELSE updates.loading[1]

Ids(ps) == [i \in DOMAIN ps |-> ps[i].id]

CeilDiv(a, b) == (a + b - 1) \div b

\* The first n elements of s, or all of s when it is shorter.
Prefix(s, n) == SubSeq(s, 1, IF n < Len(s) THEN n ELSE Len(s))

\* The k-th window of 12 of the shuffled order, k = 1, 2, ...
Window(k) ==
    SubSeq(EnumeratedIds, BATCH_SIZE * (k - 1) + 1,
           IF BATCH_SIZE * k < N THEN BATCH_SIZE * k ELSE N)

\* ------------------------------------------------------------------- C1
SingleFlightState ==
    /\ Len(inflight) <= 1
    /\ loadingRef = (inflight # <<>>)
    /\ \A k \in DOMAIN inflight : Len(inflight[k].ids) <= BATCH_SIZE

SingleFlightStep ==
    /\ inflight # <<>> =>
          /\ fetchLog' = fetchLog
          /\ started' = started
          /\ Len(inflight') <= Len(inflight)
    /\ Len(inflight') > Len(inflight) => ~loadingRef /\ inflight = <<>>

\* C1: at most one batch fan-out is in flight, of at most 12 ids; while one
\* is in flight the lock is held, and no invocation of fetchPhotoBatch made
\* then gets past the guard or issues a read; a fan-out is only ever started
\* from a state where the lock is free and nothing is in flight.
C1_SingleFlight == [](SingleFlightState) /\ [][SingleFlightStep]_vars

\* With no photo loaded, a full window of 12 is in flight and a trigger
\* fired since it started has returned at the guard.
C1_Witness ==
    /\ photos = <<>>
    /\ Len(inflight) = 1
    /\ Len(inflight[1].ids) = BATCH_SIZE
    /\ Len(fetchLog) = 1
    /\ lastCall = "noop"

\* ------------------------------------------------------------------- C2
\* C2: the photos list never holds two records with the same id, neither as
\* committed nor with the queued setPhotos updates applied.
NoDuplicateId(ps) == Cardinality(Range(Ids(ps))) = Len(ps)

C2_Uniqueness == NoDuplicateId(photos) /\ NoDuplicateId(EffPhotos)

\* The same window was fetched twice, both fetches succeeded and both
\* merges have been rendered.
C2_Witness ==
    /\ Len(fetchLog) = 2
    /\ fetchLog[1] = fetchLog[2]
    /\ successes = 2
    /\ failures = 0
    /\ updates.photos = <<>>
    /\ Len(photos) = BATCH_SIZE

\* ------------------------------------------------------------------- C3
CursorLawState ==
    /\ EffIndex = BATCH_SIZE * successes
    /\ enumeration # "inflight" =>
          currentIndex <= CeilDiv(N, BATCH_SIZE) * BATCH_SIZE

CursorLawStep ==
    /\ currentIndex' >= currentIndex
    /\ EffIndex' # EffIndex => successes' = successes + 1

\* C3: the cursor is 12 times the number of successful batch loads, never
\* exceeds ceil(N / 12) * 12 for the N enumerated ids, never decreases and
\* moves only when a batch completes successfully.
C3_CursorLaw == [](CursorLawState) /\ [][CursorLawStep]_vars

\* ------------------------------------------------------------------- C4
Last(s) == s[Len(s)]

\* A step in which a batch ends in the catch block.
BatchFailureStep ==
    failures' = failures + 1 =>
       /\ photos' = photos
       /\ updates'.photos = updates.photos
       /\ currentIndex' = currentIndex
       /\ updates'.index = updates.index
       /\ loadingRef' = FALSE
       /\ inflight' = <<>>
       /\ fetchLog' = fetchLog

\* A step in which the scroll listener starts the first batch after a failure.
RetryStep ==
    (lastCall = "failed" /\ started' = started + 1
                        /\ effectsPending' = effectsPending) =>
       fetchLog' = Append(fetchLog, Last(fetchLog))

\* C4: a batch one of whose reads rejects appends nothing, leaves the cursor
\* alone, releases the lock and issues no read of its own accord; and the
\* next trigger after it fetches the window that failed, again.
C4_AllOrNothing == [][BatchFailureStep /\ RetryStep]_vars

\* ------------------------------------------------------------------- C5
ExhaustionStep ==
    /\ allLoaded =>
          /\ allLoaded'
          /\ photos' = photos
          /\ currentIndex' = currentIndex
    /\ EffAllLoaded =>
          /\ EffAllLoaded'
          /\ inflight = <<>> /\ inflight' = <<>>
          /\ fetchLog' = fetchLog
          /\ EffPhotos' = EffPhotos
          /\ EffIndex' = EffIndex

\* C5: once allLoaded is true it stays true, and photos and currentIndex no
\* longer change; and from the call of setAllLoaded(true) on, no read is in
\* flight, none is issued, and no update of photos or of the cursor is queued,
\* whichever callback later triggers go through.
C5_ExhaustionTerminal == [][ExhaustionStep]_vars

\* allLoaded is committed, and a trigger fired since through the listener
\* that has not been re-bound yet, and it got past the guard.
C5_Witness ==
    /\ allLoaded
    /\ effectsPending
    /\ ~bound.cb.allLoaded
    /\ lastCall = "exhausted"
    /\ updates.allLoaded
    /\ photos # <<>>

\* ------------------------------------------------------------------- C6
\* Enumeration gave N > 0 ids, no batch failed, and every scroll so far
\* fired with nothing queued, unbound or in flight.
HappyPath == orderly /\ failures = 0 /\ enumeration = "done" /\ N > 0

\* C6: on the happy path the k-th fetch is the k-th successful batch and is
\* for ids[12(k-1) : 12k] of the shuffled order; after k successes the photos
\* are the first min(12k, N) ids in shuffled order and the cursor is 12k; an
\* invocation beyond the ceil(N / 12) windows sets allLoaded, with all N
\* records loaded, nothing in flight and no further read.
C6_HappyPath ==
    HappyPath =>
       /\ \A k \in DOMAIN fetchLog :
             fetchLog[k] = Window(k)
       /\ Len(fetchLog) = successes + Len(inflight)
       /\ EffIndex = BATCH_SIZE * successes
       /\ Ids(EffPhotos) = Prefix(EnumeratedIds, BATCH_SIZE * successes)
       /\ started > CeilDiv(N, BATCH_SIZE) => EffAllLoaded
       /\ EffAllLoaded =>
             /\ Len(EffPhotos) = N
             /\ inflight = <<>>
             /\ Len(fetchLog) = CeilDiv(N, BATCH_SIZE)

\* The largest collection, loaded in three windows, and exhaustion found by
\* the fourth trigger; everything rendered.
C6_Witness ==
    /\ HappyPath
    /\ Settled
    /\ N = MaxDocs
    /\ allLoaded
    /\ Len(photos) = MaxDocs
    /\ Len(fetchLog) = CeilDiv(MaxDocs, BATCH_SIZE)
    /\ started = CeilDiv(MaxDocs, BATCH_SIZE) + 1

\* ------------------------------------------------------------------- C8
\* C8: with a non-empty order available, whenever nothing is queued, unbound
\* or in flight a fetch has been issued; the first fetch ever issued is for
\* ids[0:12] of the shuffled order; and the first photos loaded are those.
C8_AutoTrigger ==
    /\ (Len(shuffledPhotoIds) > 0 /\ Settled) => fetchLog # <<>>
    /\ fetchLog # <<>> => fetchLog[1] = Window(1)
    /\ photos # <<>> => Prefix(Ids(photos), BATCH_SIZE) = Window(1)

\* ------------------------------------------------------------------- C9
\* C9: after getDocs has failed the shuffled order stays empty, no read is
\* issued, no photo is loaded, and loading stays true.
C9_EnumerationFailure ==
    enumeration = "failed" =>
       /\ EnumeratedIds = <<>>
       /\ fetchLog = <<>>
       /\ EffPhotos = <<>>
       /\ EffLoading

\* ------------------------------------------------------------------ C10
\* C10: every id at a position below min(currentIndex, N) of the shuffled
\* order is in photos, and photos is a prefix of the shuffled order.
C10_NoWindowSkipped ==
    /\ \A p \in 1 .. Min(currentIndex, Len(shuffledPhotoIds)) :
          shuffledPhotoIds[p] \in Range(Ids(photos))
    /\ Len(photos) <= Len(shuffledPhotoIds)
    /\ Ids(photos) = Prefix(shuffledPhotoIds, Len(photos))

\* ------------------------------------------------------------------ C11
\* A step in which an invocation that got past the guard ends.
InvocationEnds ==
    \/ started' = started + 1 /\ lastCall' = "exhausted"
    \/ successes' = successes + 1
    \/ failures' = failures + 1

\* C11: an invocation that took the lock leaves loadingRef false when it
\* ends, through the exhaustion return, the merge or the catch block; so the
\* lock is free whenever no invocation is suspended; and, every issued read
\* settling, a held lock is eventually released.
C11_LockReleased ==
    /\ [](inflight = <<>> => ~loadingRef)
    /\ [][InvocationEnds => ~loadingRef']_vars
    /\ (loadingRef ~> ~loadingRef)

\* The lock is free after invocations have ended in each of the three ways.
C11_Witness ==
    /\ ~loadingRef
    /\ failures >= 1
    /\ successes >= 1
    /\ lastCall = "exhausted"

\* ------------------------------------------------------------------ C12
\* A step in which fetchPhotoBatch is invoked, by the scroll listener or by
\* the first-batch effect.
Invocation == Scroll \/ (AutoTrigger /\ Effects)

\* What the claim says a guarded call leaves alone, as committed and as the
\* next render will commit it.
GuardedFrame ==
    <<photos, currentIndex, allLoaded, loading, loadingRef, inflight, fetchLog,
      updates.photos, updates.index, EffAllLoaded, EffLoading>>

\* The invocation ended at the guard: it took no lock and queued no update.
ReturnedAtGuard == started' = started /\ updates' = updates

\* The callback being invoked closed over allLoaded = true.
CapturedAllLoaded ==
    \/ Scroll /\ bound.cb.allLoaded
    \/ AutoTrigger /\ Effects /\ allLoaded

ExhaustionState ==
    /\ allLoaded =>
          Len(shuffledPhotoIds) > 0 /\ currentIndex >= Len(shuffledPhotoIds)
    /\ EffAllLoaded => N > 0 /\ EffIndex >= N
    /\ (enumeration # "done" \/ N = 0) => ~EffAllLoaded

\* A step in which setAllLoaded(true) is called for the first time.
ExhaustionSetStep ==
    (~EffAllLoaded /\ EffAllLoaded') =>
       /\ Invocation
       /\ fetchLog' = fetchLog
       /\ inflight' = inflight
       /\ EffIndex' = EffIndex
       /\ currentIndex' = currentIndex
       /\ EffIndex >= N

\* C13: whenever allLoaded is true, or queued to become true, the order is
\* non-empty and the cursor is at or beyond its length; with an empty order
\* (none enumerated yet, enumeration failed, or N = 0) it is never set; and
\* the invocation that sets it issues no read and leaves the cursor alone.
C13_ExhaustionOnlyOnEmptySlice == [](ExhaustionState) /\ [][ExhaustionSetStep]_vars

\* allLoaded was set by an invocation after both windows of 13 ids loaded.
C13_Witness ==
    /\ allLoaded
    /\ lastCall = "exhausted"
    /\ Len(shuffledPhotoIds) = BATCH_SIZE + 1
    /\ Len(photos) = BATCH_SIZE + 1
    /\ currentIndex = 2 * BATCH_SIZE

\* ------------------------------------------------------------------ C14
\* Every record of ps carries the 0-based position of its id in order.
TaggedByPosition(ps, order) ==
    \A i \in DOMAIN ps :
       /\ ps[i].index + 1 \in DOMAIN order
       /\ order[ps[i].index + 1] = ps[i].id

\* C14: every record of photos, committed or queued, carries as index the
\* 0-based position of its id in the shuffled order (the cursor its window
\* was fetched with plus its position in the window), and a record in photos
\* keeps its id and index.
C14_IndexTagging ==
    /\ [](TaggedByPosition(photos, shuffledPhotoIds))
    /\ [](TaggedByPosition(EffPhotos, EnumeratedIds))
    /\ [][\A i \in DOMAIN photos : i \in DOMAIN photos' /\ photos'[i] = photos[i]]_vars

\* Records of the second window are in photos, tagged 12 and up.
C14_Witness ==
    /\ Len(photos) > BATCH_SIZE
    /\ photos[BATCH_SIZE + 1].index = BATCH_SIZE
    /\ photos[1].index = 0

\* ------------------------------------------------------------------ C15
\* The position of id in the shuffled order.
PositionOf(id) == CHOOSE p \in DOMAIN EnumeratedIds : EnumeratedIds[p] = id

\* The records of ps follow the shuffled order.
InShuffledOrder(ps) ==
    \A i \in 1 .. Len(ps) - 1 : PositionOf(ps[i].id) < PositionOf(ps[i + 1].id)

\* C15: photos only grows at its end, what it held stays where it was; and
\* with the queued appends applied (photos is a prefix of that) its records
\* are in strictly increasing position of
\* the shuffled order: window after window, and within a window in the order
\* of the requests, whichever way the reads came back.
C15_AppendOrder ==
    /\ [](InShuffledOrder(EffPhotos))
    /\ [][Len(photos') >= Len(photos)
            /\ SubSeq(photos', 1, Len(photos)) = photos]_vars

\* The first window is in photos and the reads of the next one are coming
\* back last-to-first.
C15_Witness ==
    /\ Len(photos) = BATCH_SIZE
    /\ Len(inflight) = 1
    /\ Len(inflight[1].ids) > 1
    /\ inflight[1].arrived # <<>>
    /\ inflight[1].arrived[1] = Len(inflight[1].ids)

\* ------------------------------------------------------------------ C16
\* The step leaves LoadedSet, LoadCursor and ExhaustionFlag, taken with the
\* queued updates applied, as they are: either nothing of them is touched,
\* or the step is the re-render that commits exactly what was queued.
LoaderStateKept ==
    \/ UNCHANGED <<photos, currentIndex, allLoaded,
                   updates.photos, updates.index, updates.allLoaded>>
    \/ /\ photos' = EffPhotos /\ updates'.photos = <<>>
       /\ currentIndex' = EffIndex /\ updates'.index = 0
       /\ allLoaded' = EffAllLoaded /\ ~updates'.allLoaded

PermutationOfIds(order) ==
    /\ Range(order) = 1 .. Len(order)
    /\ Cardinality(Range(order)) = Len(order)

\* C17: the enumeration, in flight from the mount, is never issued again once
\* it has settled; the shuffled order, committed or queued, changes at most
\* once, from empty to a permutation of the enumerated ids when the
\* enumeration resolves, and no other step (batch load, trigger, re-render)
\* modifies it; it never holds an id twice.
C17_OrderComputedOnce ==
    /\ [](PermutationOfIds(shuffledPhotoIds) /\ PermutationOfIds(EnumeratedIds))
    /\ [](Len(updates.ids) <= 1)
    /\ [][enumeration # "inflight" => enumeration' = enumeration]_vars
    /\ [][EnumeratedIds' # EnumeratedIds =>
            /\ EnumeratedIds = <<>>
            /\ enumeration = "inflight" /\ enumeration' = "done"]_vars
    /\ [][shuffledPhotoIds' # shuffledPhotoIds =>
            shuffledPhotoIds = <<>> /\ shuffledPhotoIds' = EnumeratedIds]_vars

\* The order is set, is not the enumeration order, and batches have been
\* loaded and a failure taken since.
C17_Witness ==
    /\ Len(shuffledPhotoIds) = MaxDocs
    /\ shuffledPhotoIds[1] # 1
    /\ Len(photos) > BATCH_SIZE
    /\ failures >= 1

\* ------------------------------------------------------------------ C18
\* C18: whenever allLoaded is true, committed (the render then shows "End of
\* gallery.") or queued, photos holds every id of the shuffled order.
C18_AllLoadedMeansAll ==
    /\ allLoaded => Range(shuffledPhotoIds) \subseteq Range(Ids(photos))
    /\ EffAllLoaded => Range(EnumeratedIds) \subseteq Range(Ids(EffPhotos))

\* ------------------------------------------------------------------ C19
\* Every id of the shuffled order is in photos and the flag is set.
GalleryComplete ==
    /\ allLoaded
    /\ Range(shuffledPhotoIds) = Range(EnumeratedIds)
    /\ Range(shuffledPhotoIds) \subseteq Range(Ids(photos))

\* C19: once the enumeration has succeeded with N > 0 ids, then, with reads
\* that settle, triggers that keep firing and re-renders that complete,
\* eventually every one of the N ids is in photos and allLoaded is true
\* (a run is excused when it uses up the MaxStarts invocations explored).
C19_Progress ==
    (enumeration = "done" /\ N > 0) ~> (GalleryComplete \/ started = MaxStarts)

\* ------------------------------------------------------------------ C20
\* C20: loading, with the queued updates applied, is true whenever the lock
\* is held or the enumeration is in flight, and false once neither is in
\* flight and the enumeration has not failed.
C20_LoadingTracksWork ==
    /\ (loadingRef \/ enumeration = "inflight") => EffLoading
    /\ (~loadingRef /\ enumeration = "done") => ~EffLoading

\* ------------------------------------------------------------------- C7
ShufflePermutation ==
    /\ SameMultiset(shArray, shInput)
    /\ shCurrentIndex \in 0 .. Len(shInput)
    /\ shRandomIndex \in 0 .. shCurrentIndex

\* C7: for every input array (of any length from 0, repeated elements
\* included) and every outcome of the draws, shuffleArray reaches its return,
\* the array holds the same multiset of elements as the input throughout, and
\* every swap index randomIndex lies in [0, i] for the position i just filled.
C7_Permutation == [](ShufflePermutation) /\ <>(shPc = "done")

\* A shuffle of a longest array with a repeated element has returned a
\* different arrangement.
C7_Witness ==
    /\ shPc = "done"
    /\ Len(shInput) = MaxLen
    /\ shArray # shInput
    /\ \E x \in Range(shInput) : Count(shInput, x) >= 2

====
